---- MODULE Spec2Model ----
(***************************************************************************)
(* Model of the two trace analysers of the repository:                     *)
(*   src/uv-stage-parser.py       UVStageParser   (stage classifier)       *)
(*   src/uv-download-analyzer.py  UVDownloadAnalyzer (download timeline)   *)
(*                                                                         *)
(* A log line is modelled by what the regular expressions of the source    *)
(* see in it: the set of patterns it matches and the numbers they capture. *)
(* Elapsed times are integers (milliseconds of the "<float>s" prefix).     *)
(***************************************************************************)
EXTENDS Integers, Sequences, FiniteSets, TLC

None == "None"

(***************************************************************************)
(* Bounds of the model                                                     *)
(***************************************************************************)
MaxCount == 2        \* largest N of "Resolved/Prepared/Installed N packages"
MaxId == 1           \* largest PubGrub package id in a line

(***************************************************************************)
(*                    src/uv-stage-parser.py                               *)
(***************************************************************************)

\* class UVStage, in declaration order
UVStage ==
  << "initializing", "startup", "resolution_setup", "cache_checking_and_metadata",
     "dependency_resolution", "resolution_summary", "installation_planning",
     "package_downloads", "package_preparation", "installation", "final_summary" >>

Stages == { UVStage[i] : i \in 1..Len(UVStage) }

\* position of a stage in the enumeration
StageIndex(s) == CHOOSE i \in 1..Len(UVStage) : UVStage[i] = s

\* the regular expressions of parse_line, one name per re.search pattern
AnchoredPatterns == { "uv_version", "resolved", "prepared", "installed" }

Patterns ==
  AnchoredPatterns \cup
  { "solving", "found_fresh", "parse_simple_api", "add_decision", "plan",
    "prepare_total", "install_blocking" }

\* A line as the stage parser sees it:
\*   pats      the patterns of parse_line that re.search finds in the line
\*   first_id  the integer of the first "Id::<PubGrubPackage>(n)" of the line
\*             (what the second re.search of line 68 captures)
\*   dec_id    the integer inside the add_decision match of line 67
\*   count     the N of "Resolved|Prepared|Installed N packages"
StageLine(pats, dec_id, first_id, count) ==
  [ pats |-> pats, dec_id |-> dec_id, first_id |-> first_id, count |-> count ]

StageLines ==
  { StageLine({}, 0, 0, 0) }
  \cup { StageLine({p}, 0, 0, 0) :
           p \in Patterns \ { "add_decision", "resolved", "prepared", "installed" } }
  \cup { StageLine({"add_decision"}, d, f, 0) : d \in 0..MaxId, f \in 0..MaxId }
  \cup { StageLine({p}, 0, 0, n) :
           p \in { "resolved", "prepared", "installed" }, n \in 0..MaxCount }
  \cup { StageLine({"prepare_total", "install_blocking"}, 0, 0, 0),
         StageLine({"found_fresh", "parse_simple_api"}, 0, 0, 0),
         StageLine({"installed", "install_blocking"}, 0, 0, 1) }

\* re.search(pattern, line)
Search(p, line) == p \in line.pats

\* UVStageParser.__init__
StageParserInit ==
  [ current_stage |-> "initializing",
    stage_history |-> << >>,
    packages_resolved |-> 0,
    packages_prepared |-> 0,
    packages_installed |-> 0,
    seen_first_pubgrub_decision |-> FALSE ]

\* Stage 1 -> 2: Startup (lines 43-46)
BranchInitializing(self, line) ==
  IF Search("uv_version", line)
  THEN [self EXCEPT !.current_stage = "startup"]
  ELSE self

\* Stage 2 -> 3: Resolution Setup (lines 49-52)
BranchStartup(self, line) ==
  IF Search("solving", line)
  THEN [self EXCEPT !.current_stage = "resolution_setup"]
  ELSE self

\* Stage 3 -> 4: Cache Checking and Metadata Retrieval (lines 55-62)
BranchResolutionSetup(self, line) ==
  IF Search("found_fresh", line)
  THEN [self EXCEPT !.current_stage = "cache_checking_and_metadata"]
  ELSE IF Search("parse_simple_api", line)
  THEN [self EXCEPT !.current_stage = "cache_checking_and_metadata"]
  ELSE self

\* BranchCacheChecking with the flag set as soon as a decision line is seen,
\* before the package id is looked at
BranchCacheChecking_EagerFlag(self, line) ==
  IF Search("add_decision", line)
  THEN IF line.first_id # 0 /\ ~self.seen_first_pubgrub_decision
       THEN [self EXCEPT !.seen_first_pubgrub_decision = TRUE,
                         !.current_stage = "dependency_resolution"]
       ELSE [self EXCEPT !.seen_first_pubgrub_decision = TRUE]
  ELSE self

\* Stage 4 -> 5: Dependency Resolution (lines 65-72)
BranchCacheChecking(self, line) ==
  IF Search("add_decision", line)
  THEN IF line.first_id # 0
       THEN IF ~self.seen_first_pubgrub_decision
            THEN [self EXCEPT !.seen_first_pubgrub_decision = TRUE,
                              !.current_stage = "dependency_resolution"]
            ELSE self
       ELSE self
  ELSE self

\* Stage 5 -> 6: Resolution Summary (lines 75-81)
BranchDependencyResolution(self, line) ==
  IF Search("resolved", line)
  THEN [self EXCEPT !.packages_resolved = line.count,
                    !.current_stage = "resolution_summary"]
  ELSE self

\* BranchResolutionSummary with the target of the next branch
BranchResolutionSummary_Skip(self, line) ==
  IF Search("plan", line)
  THEN [self EXCEPT !.current_stage = "package_downloads"]
  ELSE self

\* Stage 6 -> 7: Installation Planning (lines 84-87)
BranchResolutionSummary(self, line) ==
  IF Search("plan", line)
  THEN [self EXCEPT !.current_stage = "installation_planning"]
  ELSE self

\* Stage 7 -> 8, or 7 -> 10 when no downloads are needed (lines 90-96)
BranchInstallationPlanning(self, line) ==
  IF Search("prepare_total", line)
  THEN [self EXCEPT !.current_stage = "package_downloads"]
  ELSE IF Search("install_blocking", line)
  THEN [self EXCEPT !.current_stage = "installation"]
  ELSE self

\* Stage 8 -> 9: Package Preparation (lines 99-105)
BranchPackageDownloads(self, line) ==
  IF Search("prepared", line)
  THEN [self EXCEPT !.packages_prepared = line.count,
                    !.current_stage = "package_preparation"]
  ELSE self

\* BranchPackagePreparation with the target of the branch before it
BranchPackagePreparation_Regress(self, line) ==
  IF Search("install_blocking", line)
  THEN [self EXCEPT !.current_stage = "package_downloads"]
  ELSE self

\* Stage 9 -> 10: Installation (lines 108-111)
BranchPackagePreparation(self, line) ==
  IF Search("install_blocking", line)
  THEN [self EXCEPT !.current_stage = "installation"]
  ELSE self

\* BranchInstallation that also takes the count of a later "Prepared" line
BranchInstallation_Recount(self, line) ==
  IF Search("installed", line)
  THEN [self EXCEPT !.packages_installed = line.count,
                    !.current_stage = "final_summary"]
  ELSE IF Search("prepared", line)
       THEN [self EXCEPT !.packages_prepared = line.count]
       ELSE self

\* Stage 10 -> 11: Final Summary (lines 114-120)
BranchInstallation(self, line) ==
  IF Search("installed", line)
  THEN [self EXCEPT !.packages_installed = line.count,
                    !.current_stage = "final_summary"]
  ELSE self

\* The if/elif chain of parse_line (lines 42-120): the parser after the
\* branch of the current stage has run, before the history is updated.
StageBranch(self, line) ==
  CASE self.current_stage = "initializing" -> BranchInitializing(self, line)
    [] self.current_stage = "startup" -> BranchStartup(self, line)
    [] self.current_stage = "resolution_setup" -> BranchResolutionSetup(self, line)
    [] self.current_stage = "cache_checking_and_metadata" ->
         BranchCacheChecking(self, line)
    [] self.current_stage = "dependency_resolution" ->
         BranchDependencyResolution(self, line)
    [] self.current_stage = "resolution_summary" ->
         BranchResolutionSummary(self, line)
    [] self.current_stage = "installation_planning" ->
         BranchInstallationPlanning(self, line)
    [] self.current_stage = "package_downloads" ->
         BranchPackageDownloads(self, line)
    [] self.current_stage = "package_preparation" ->
         BranchPackagePreparation(self, line)
    [] self.current_stage = "installation" -> BranchInstallation(self, line)
    [] OTHER -> self

\* parse_line recording the stage that was left
stage_parse_line_RecordsPrev(self, line) ==
  LET prev_stage == self.current_stage
      after == StageBranch(self, line)
  IN IF prev_stage # after.current_stage
     THEN [ self |-> [after EXCEPT !.stage_history =
                        Append(@, << prev_stage, line >>)],
            ret |-> after.current_stage ]
     ELSE [ self |-> after, ret |-> None ]

\* UVStageParser.parse_line: the parser after the call and the value returned
stage_parse_line(self, line) ==
  LET prev_stage == self.current_stage
      after == StageBranch(self, line)
  IN IF prev_stage # after.current_stage
     THEN [ self |-> [after EXCEPT !.stage_history =
                        Append(@, << after.current_stage, line >>)],
            ret |-> after.current_stage ]
     ELSE [ self |-> after, ret |-> None ]

(***************************************************************************)
(*                    src/uv-download-analyzer.py                          *)
(***************************************************************************)

\* Python None in a field that otherwise holds a number, and a capture of
\* [0-9.]+ that float() rejects (such as "1.2.3"); both lie below every
\* number the model computes
NoneNum == -1000000
Bad == -1000001

\* Elapsed times are counted in ticks of 1/TicksPerSecond second: the float
\* the source holds is ticks / TicksPerSecond.
TicksPerSecond == 1000

\* the names a size announcement may carry in the model, and str.lower()
PackageNames == { "torch", "NumPy", "flask" }

Lower(name) ==
  CASE name = "NumPy" -> "numpy"
    [] name = "Torch" -> "torch"
    [] name = "SciPy" -> "scipy"
    [] OTHER -> name

Sizes == { 8 }                   \* MiB of a size announcement
FrameStreams == { 7, 11, 5 }     \* stream ids data frames carry in the model

\* A line as the download analyzer sees it:
\*   ts          capture of ^\s*([0-9.]+)s : NoneNum (no match), Bad, or ticks
\*   pkg, size   captures of "Downloading (\w+) \(([0-9.]+)MiB\)", or None/NoneNum
\*   stream      capture of "frame=Data { stream_id: StreamId((\d+))", or NoneNum
\*   end_stream  'END_STREAM' in line
DlLine(ts, pkg, size, stream, end_stream) ==
  [ ts |-> ts, pkg |-> pkg, size |-> size, stream |-> stream,
    end_stream |-> end_stream ]

NoiseLine == DlLine(NoneNum, None, NoneNum, NoneNum, FALSE)

\* size announcements carry no elapsed-time prefix (comment of line 65)
AnnounceLines(maxSizes) ==
  { DlLine(NoneNum, p, z, NoneNum, FALSE) : p \in PackageNames, z \in maxSizes }

DataLines(times) ==
  { DlLine(t, None, NoneNum, s, e) : t \in times, s \in FrameStreams, e \in BOOLEAN }

\* truthiness of an Optional[float]: neither None nor 0.0
Truthy(x) == x # NoneNum /\ x # 0

\* class DownloadEvent
DownloadEvent(timestamp, line_num, package, event_type, stream_id, size_mb) ==
  [ timestamp |-> timestamp, line_num |-> line_num, package |-> package,
    event_type |-> event_type, stream_id |-> stream_id, size_mb |-> size_mb ]

\* class PackageDownload, with the defaults of its optional fields
PackageDownload(package, stream_id, start_time, start_line, size_mb) ==
  [ package |-> package, stream_id |-> stream_id, start_time |-> start_time,
    start_line |-> start_line, end_time |-> NoneNum, end_line |-> NoneNum,
    size_mb |-> size_mb, data_frames |-> 0 ]

\* PackageDownload.duration_ms
duration_ms(d) ==
  IF d.end_time # NoneNum
  THEN ((d.end_time - d.start_time) * 1000) \div TicksPerSecond
  ELSE NoneNum

\* speed_mbps without the factor 8 (bytes instead of bits)
speed_mbps_Bytes(d) ==
  IF Truthy(duration_ms(d)) /\ Truthy(d.size_mb)
  THEN << d.size_mb * 1000, duration_ms(d) >>
  ELSE << >>

\* PackageDownload.speed_mbps: << >> for None, else << n, m >> for the
\* quotient n / m = (size_mb * 8) / (duration_ms / 1000)
speed_mbps(d) ==
  IF Truthy(duration_ms(d)) /\ Truthy(d.size_mb)
  THEN << d.size_mb * 8 * 1000, duration_ms(d) >>
  ELSE << >>

\* A Python dict keyed by stream id is a sequence of its values in insertion
\* order; assigning to a present key keeps the key's position.
DictKeys(dict) == { dict[i].stream_id : i \in 1..Len(dict) }

DictGet(dict, k) == dict[CHOOSE i \in 1..Len(dict) : dict[i].stream_id = k]

DictSet(dict, k, v) ==
  IF k \in DictKeys(dict)
  THEN [ i \in 1..Len(dict) |-> IF dict[i].stream_id = k THEN v ELSE dict[i] ]
  ELSE Append(dict, v)

\* UVDownloadAnalyzer.__init__
AnalyzerInit ==
  [ events |-> << >>, downloads |-> << >>, stream_to_package |-> << >> ]

\* UVDownloadAnalyzer.parse_timestamp: the float, NoneNum, or Bad when float()
\* raises ValueError
parse_timestamp(line) == line.ts

\* UVDownloadAnalyzer._find_stream_for_package
package_streams == [ torch |-> 7, numpy |-> 11, scipy |-> 9 ]

\* find_stream_for_package with a default stream for a package that is not in
\* the table
find_stream_for_package_Default(package, line_num) ==
  IF Lower(package) \in DOMAIN package_streams
  THEN package_streams[Lower(package)]
  ELSE 5

find_stream_for_package(package, line_num) ==
  IF Lower(package) \in DOMAIN package_streams
  THEN package_streams[Lower(package)]
  ELSE NoneNum

\* parse_line, lines 66-84: the size announcement
RegisterDownload(self, line_num, line) ==
  IF line.pkg # None
  THEN LET package == line.pkg
           size_mb == line.size
           stream_id == find_stream_for_package(package, line_num)
       IN IF stream_id # NoneNum /\ stream_id # 0
          THEN [ self EXCEPT
                   !.stream_to_package =
                      DictSet(@, stream_id,
                              [ stream_id |-> stream_id, package |-> package ]),
                   !.downloads =
                      DictSet(@, stream_id,
                              PackageDownload(package, stream_id, 0, line_num,
                                              size_mb)) ]
          ELSE self
  ELSE self

\* parse_line, lines 97-106: the first data frame sets the start time
FirstFrame(self, line_num, stream_id, timestamp) ==
  LET download == DictGet(self.downloads, stream_id)
  IN IF download.start_time = 0
     THEN [ self EXCEPT
              !.downloads =
                 DictSet(@, stream_id, [download EXCEPT !.start_time = timestamp]),
              !.events =
                 Append(@, DownloadEvent(timestamp, line_num, download.package,
                                         "start", stream_id, download.size_mb)) ]
     ELSE self

\* CountFrame counting the frame for every download that has not ended
CountFrame_AllStreams(self, stream_id) ==
  [ self EXCEPT
      !.downloads =
         [ i \in 1..Len(@) |->
             IF @[i].end_time = NoneNum \/ @[i].end_time = 0
             THEN [ @[i] EXCEPT !.data_frames = @ + 1 ]
             ELSE @[i] ] ]

\* CountFrame without the test of end_time
CountFrame_Unguarded(self, stream_id) ==
  LET download == DictGet(self.downloads, stream_id)
  IN [ self EXCEPT
         !.downloads =
            DictSet(@, stream_id, [download EXCEPT !.data_frames = @ + 1]) ]

\* parse_line, lines 108-109: the frame counter
CountFrame(self, stream_id) ==
  LET download == DictGet(self.downloads, stream_id)
  IN IF download.end_time = NoneNum \/ download.end_time = 0
     THEN [ self EXCEPT
              !.downloads =
                 DictSet(@, stream_id,
                         [download EXCEPT !.data_frames = @ + 1]) ]
     ELSE self

\* parse_line, lines 111-121: the END_STREAM flag
EndStream(self, line_num, line, stream_id, timestamp) ==
  LET download == DictGet(self.downloads, stream_id)
  IN IF line.end_stream
     THEN [ self EXCEPT
              !.downloads =
                 DictSet(@, stream_id, [download EXCEPT !.end_time = timestamp,
                                                        !.end_line = line_num]),
              !.events =
                 Append(@, DownloadEvent(timestamp, line_num, download.package,
                                         "end", stream_id, NoneNum)) ]
     ELSE self

\* parse_line, lines 86-121: the data frame
DataFrame(self, line_num, line, timestamp) ==
  IF timestamp = NoneNum \/ timestamp = 0
  THEN self
  ELSE IF line.stream # NoneNum /\ line.stream \in DictKeys(self.downloads)
  THEN EndStream(CountFrame(FirstFrame(self, line_num, line.stream, timestamp),
                            line.stream),
                 line_num, line, line.stream, timestamp)
  ELSE self

\* does the call raise ValueError (float() of lines 58 and 69)?
ParseLineRaises(line) ==
  \/ parse_timestamp(line) = Bad
  \/ line.pkg # None /\ line.size = Bad

\* UVDownloadAnalyzer.parse_line, for a call that does not raise
parse_line(self, line_num, line) ==
  DataFrame(RegisterDownload(self, line_num, line), line_num, line,
            parse_timestamp(line))

\* sorted(seq, key=...) of Python: stable, ascending; key[i] is the key of seq[i]
StableSort(seq, key) ==
  LET n == Len(seq)
      pos(i) == 1 + Cardinality({ j \in 1..n :
                                    (key[j] < key[i]) \/ (key[j] = key[i] /\ j < i) })
  IN [ p \in 1..n |-> seq[CHOOSE i \in 1..n : pos(i) = p] ]

Min(S) == CHOOSE x \in S : \A y \in S : x <= y
Max(S) == CHOOSE x \in S : \A y \in S : y <= x

\* int(a / b) of Python for integers a, b with b # 0: truncation toward zero
Abs(x) == IF x < 0 THEN -x ELSE x

TruncDiv(a, b) ==
  IF (a >= 0) = (b > 0) THEN Abs(a) \div Abs(b) ELSE -(Abs(a) \div Abs(b))

\* get_timeline, line 154
sorted_downloads(self) ==
  StableSort(self.downloads,
             [ i \in 1..Len(self.downloads) |-> self.downloads[i].start_time ])

\* get_timeline, line 161
first_start(sorted) == Min({ sorted[i].start_time : i \in 1..Len(sorted) })

\* get_timeline, line 162: the generator max() ranges over
EndTimes(sorted) ==
  { sorted[i].end_time : i \in { j \in 1..Len(sorted) : Truthy(sorted[j].end_time) } }

last_end(sorted) == Max(EndTimes(sorted))

\* total_duration left in seconds
total_duration_NoScale(sorted) ==
  (last_end(sorted) - first_start(sorted)) \div TicksPerSecond

\* get_timeline, line 163
total_duration(sorted) ==
  ((last_end(sorted) - first_start(sorted)) * 1000) \div TicksPerSecond

\* get_timeline, lines 194-212: the bar of one download; the list assignments
\* raise IndexError outside -timeline_width .. timeline_width - 1
timeline_width == 50

BarRaises(d, first, last) ==
  LET start_pos == TruncDiv((d.start_time - first) * timeline_width, last - first)
      end_pos == TruncDiv((d.end_time - first) * timeline_width, last - first)
  IN \/ start_pos >= timeline_width
     \/ start_pos < -timeline_width
     \/ end_pos < -timeline_width

\* Overlap with intervals that merely touch counted as overlapping
Overlap_Closed(d1, d2) ==
  /\ Truthy(d1.end_time) /\ Truthy(d2.end_time)
  /\ d1.start_time <= d2.end_time /\ d2.start_time <= d1.end_time

\* get_timeline, lines 223-232: the overlapping pairs, in the order of the loops
Overlap(d1, d2) ==
  /\ Truthy(d1.end_time) /\ Truthy(d2.end_time)
  /\ d1.start_time < d2.end_time /\ d2.start_time < d1.end_time

overlap_duration(d1, d2) ==
  LET overlap_start == IF d1.start_time >= d2.start_time
                       THEN d1.start_time ELSE d2.start_time
      overlap_end == IF d1.end_time <= d2.end_time
                     THEN d1.end_time ELSE d2.end_time
  IN ((overlap_end - overlap_start) * 1000) \div TicksPerSecond

RECURSIVE OverlapsFrom(_, _, _)
OverlapsFrom(sorted, i, j) ==
  IF i > Len(sorted) THEN << >>
  ELSE IF j > Len(sorted) THEN OverlapsFrom(sorted, i + 1, i + 2)
  ELSE (IF Overlap(sorted[i], sorted[j])
        THEN << << sorted[i].package, sorted[j].package,
                   overlap_duration(sorted[i], sorted[j]) >> >>
        ELSE << >>) \o OverlapsFrom(sorted, i, j + 1)

overlaps(sorted) == OverlapsFrom(sorted, 1, 2)

\* get_timeline, line 244
events_sorted(self) ==
  StableSort(self.events,
             [ i \in 1..Len(self.events) |-> self.events[i].timestamp ])

\* Sweep with the maximum taken before the counter is incremented
RECURSIVE Sweep_LateMax(_, _, _, _)
Sweep_LateMax(evs, i, current_parallel, running_max) ==
  IF i > Len(evs) THEN running_max
  ELSE IF evs[i].event_type = "start"
  THEN Sweep_LateMax(evs, i + 1, current_parallel + 1,
                     IF current_parallel > running_max
                     THEN current_parallel ELSE running_max)
  ELSE IF evs[i].event_type = "end"
  THEN Sweep_LateMax(evs, i + 1, current_parallel - 1, running_max)
  ELSE Sweep_LateMax(evs, i + 1, current_parallel, running_max)

\* get_timeline, lines 246-251: the sweep from event i on
RECURSIVE Sweep(_, _, _, _)
Sweep(evs, i, current_parallel, max_parallel) ==
  IF i > Len(evs) THEN max_parallel
  ELSE IF evs[i].event_type = "start"
  THEN Sweep(evs, i + 1, current_parallel + 1,
             IF current_parallel + 1 > max_parallel
             THEN current_parallel + 1 ELSE max_parallel)
  ELSE IF evs[i].event_type = "end"
  THEN Sweep(evs, i + 1, current_parallel - 1, max_parallel)
  ELSE Sweep(evs, i + 1, current_parallel, max_parallel)

max_parallel(self) == Sweep(events_sorted(self), 1, 0, 0)

\* What get_timeline makes of the analyzer: the exception it raises or the
\* figures of the text it returns.
Report(status, duration, number, incomplete, overlapping, parallel) ==
  [ status |-> status, total_duration |-> duration, downloads |-> number,
    incomplete |-> incomplete, overlaps |-> overlapping,
    max_parallel |-> parallel ]

Failed(exception) == Report(exception, NoneNum, NoneNum, {}, << >>, NoneNum)

\* UVDownloadAnalyzer.get_timeline
get_timeline(self) ==
  LET sorted == sorted_downloads(self)
      completed == { i \in 1..Len(sorted) : Truthy(sorted[i].end_time) }
  IN IF Len(sorted) = 0
     THEN Report("no_downloads", NoneNum, 0, {}, << >>, NoneNum)
     ELSE IF EndTimes(sorted) = {}
     THEN Failed("ValueError")
     ELSE IF last_end(sorted) = first_start(sorted)
     THEN Failed("ZeroDivisionError")
     ELSE IF \E i \in completed :
               BarRaises(sorted[i], first_start(sorted), last_end(sorted))
     THEN Failed("IndexError")
     ELSE Report("ok", total_duration(sorted), Len(sorted),
                 { sorted[i].stream_id : i \in (1..Len(sorted)) \ completed },
                 overlaps(sorted), max_parallel(self))

VARIABLES parser, new_stage, analyzer, line_num, pc, timeline

stage_vars == << parser, new_stage >>
dl_vars == << analyzer, line_num, pc, timeline >>
vars == << parser, new_stage, analyzer, line_num, pc, timeline >>

(***************************************************************************)
(* Bounds of the download model                                            *)
(***************************************************************************)
MaxLines == 5        \* lines of the trace
MaxTime == 3         \* largest elapsed time of a line, in ticks

\* the lines of a trace
DlLines ==
  { NoiseLine }
  \cup AnnounceLines(Sizes \cup { Bad })
  \cup DataLines({ NoneNum, Bad } \cup (0..MaxTime))

StageInit ==
  /\ parser = StageParserInit
  /\ new_stage = None

DlInit ==
  /\ analyzer = AnalyzerInit
  /\ line_num = 0
  /\ pc = "scan"
  /\ timeline = Failed("not_run")

Init == StageInit /\ DlInit

\* uv-stage-parser.py main(): new_stage = parser.parse_line(line), for the
\* next line of the file
FeedLine ==
  /\ \E line \in StageLines :
       /\ parser' = stage_parse_line(parser, line).self
       /\ new_stage' = stage_parse_line(parser, line).ret
  /\ UNCHANGED dl_vars

StageNext == FeedLine

\* analyze_file: self.parse_line(line_num, line) for the next line of the file;
\* a ValueError of float() is caught nowhere and ends the program
ReadLine(line) ==
  /\ pc = "scan"
  /\ line_num < MaxLines
  /\ line_num' = line_num + 1
  /\ IF ParseLineRaises(line)
     THEN /\ pc' = "ValueError"
          /\ UNCHANGED << analyzer, timeline >>
     ELSE /\ analyzer' = parse_line(analyzer, line_num + 1, line)
          /\ UNCHANGED << pc, timeline >>
  /\ UNCHANGED stage_vars

AnalyzeLine == \E line \in DlLines : ReadLine(line)

\* main(): print(analyzer.get_timeline()) once the file is read
GetTimeline ==
  /\ pc = "scan"
  /\ timeline' = get_timeline(analyzer)
  /\ pc' = IF get_timeline(analyzer).status \in { "ok", "no_downloads" }
           THEN "done" ELSE get_timeline(analyzer).status
  /\ UNCHANGED << analyzer, line_num >>
  /\ UNCHANGED stage_vars

DlNext == AnalyzeLine \/ GetTimeline

\* the stage classifier
Spec == Init /\ [][StageNext]_vars

\* the download analyzer
DlSpec == Init /\ [][DlNext]_vars

(***************************************************************************)
(*                    Properties of the stage classifier                   *)
(***************************************************************************)

\* the stage of the i-th entry of stage_history, and its trigger line
HistoryStage(i) == parser.stage_history[i][1]
HistoryLine(i) == parser.stage_history[i][2]

\* C1: the stages recorded in stage_history are strictly increasing in the
\* order of the enumeration (so no stage is recorded twice), and the current
\* stage is never before a recorded one.
C1_HistoryStrictlyIncreasing ==
  /\ \A i, j \in 1..Len(parser.stage_history) :
       i < j => StageIndex(HistoryStage(i)) < StageIndex(HistoryStage(j))
  /\ \A i \in 1..Len(parser.stage_history) :
       StageIndex(HistoryStage(i)) <= StageIndex(parser.current_stage)

C1_Witness ==
  /\ parser.current_stage = "final_summary"
  /\ Len(parser.stage_history) = 10

\* C2 as stated: every transition goes to the immediate successor of the
\* current stage, so the i-th recorded stage is the (i+1)-th of the enumeration.
C2_NeverSkips ==
  \A i \in 1..Len(parser.stage_history) : StageIndex(HistoryStage(i)) = i + 1

\* C2 amended: every transition goes to the immediate successor of the stage
\* before it, except that installation_planning moves directly to installation
\* on a line with install_blocking and without "prepare total=".
C2_SkipsOnlyDownloads ==
  \A i \in 1..Len(parser.stage_history) :
    LET before == IF i = 1 THEN "initializing" ELSE HistoryStage(i - 1)
    IN \/ StageIndex(HistoryStage(i)) = StageIndex(before) + 1
       \/ /\ before = "installation_planning"
          /\ HistoryStage(i) = "installation"
          /\ Search("install_blocking", HistoryLine(i))
          /\ ~Search("prepare_total", HistoryLine(i))

C2_Witness ==
  \E i \in 2..Len(parser.stage_history) :
    /\ HistoryStage(i - 1) = "installation_planning"
    /\ HistoryStage(i) = "installation"

\* the trigger rules of a stage: does the line fire one of them?
TriggerMatches(stage, line) ==
  CASE stage = "initializing" -> Search("uv_version", line)
    [] stage = "startup" -> Search("solving", line)
    [] stage = "resolution_setup" ->
         Search("found_fresh", line) \/ Search("parse_simple_api", line)
    [] stage = "cache_checking_and_metadata" ->
         Search("add_decision", line) /\ line.first_id # 0
    [] stage = "dependency_resolution" -> Search("resolved", line)
    [] stage = "resolution_summary" -> Search("plan", line)
    [] stage = "installation_planning" ->
         Search("prepare_total", line) \/ Search("install_blocking", line)
    [] stage = "package_downloads" -> Search("prepared", line)
    [] stage = "package_preparation" -> Search("install_blocking", line)
    [] stage = "installation" -> Search("installed", line)
    [] OTHER -> FALSE

\* C3: in every reachable state, a line that fires no trigger rule of the
\* current stage makes parse_line return None and leave the parser as it is,
\* however often it is fed.
C3_UnmatchedLineIsNoOp ==
  \A line \in StageLines :
    ~TriggerMatches(parser.current_stage, line) =>
      /\ stage_parse_line(parser, line) = [ self |-> parser, ret |-> None ]
      /\ stage_parse_line(stage_parse_line(parser, line).self, line)
           = [ self |-> parser, ret |-> None ]

C3_Witness ==
  /\ parser.current_stage = "cache_checking_and_metadata"
  /\ new_stage = None
  /\ ~parser.seen_first_pubgrub_decision

(***************************************************************************)
(*                    Properties of the download analyzer                  *)
(***************************************************************************)

Record(self, s) == DictGet(self.downloads, s)
Registered(self) == DictKeys(self.downloads)

EventsOf(self, s, kind) ==
  { i \in 1..Len(self.events) :
      self.events[i].stream_id = s /\ self.events[i].event_type = kind }

\* C4: once a record is registered for a stream id, no later line creates a
\* fresh record for that id: a start time or an end time that is set stays set
\* and the frame count does not fall.
C4_RecordNeverReset ==
  [][ \A s \in Registered(analyzer) :
        /\ s \in Registered(analyzer')
        /\ Record(analyzer, s).start_time # 0
             => Record(analyzer', s).start_time = Record(analyzer, s).start_time
        /\ Record(analyzer, s).end_time # NoneNum
             => Record(analyzer', s).end_time # NoneNum
        /\ Record(analyzer', s).data_frames >= Record(analyzer, s).data_frames
    ]_vars

\* C5: a data-frame line with an elapsed time for a stream whose record is
\* pending sets the record's start time to the elapsed time and its start line
\* to the line's number, and appends exactly one 'start' event.
StartEvents(self) ==
  SelectSeq(self.events, LAMBDA e : e.event_type = "start")

C5_FirstFrameSetsStart ==
  [][ \A line \in DataLines(0..MaxTime) :
        ( /\ ReadLine(line)
          /\ line.stream \in Registered(analyzer)
          /\ Record(analyzer, line.stream).start_time = 0 )
        => /\ Record(analyzer', line.stream).start_time = line.ts
           /\ Record(analyzer', line.stream).start_line = line_num'
           /\ StartEvents(analyzer') =
                Append(StartEvents(analyzer),
                       DownloadEvent(line.ts, line_num',
                                     Record(analyzer, line.stream).package,
                                     "start", line.stream,
                                     Record(analyzer, line.stream).size_mb))
    ]_vars

\* the largest number of completed downloads that pairwise overlap
PairwiseOverlap(d1, d2) ==
  /\ d1.end_time # NoneNum /\ d2.end_time # NoneNum
  /\ d1.start_time < d2.end_time /\ d2.start_time < d1.end_time

LargestClique(self) ==
  Max({ Cardinality(S) :
          S \in { T \in SUBSET Registered(self) :
                    /\ \A s \in T : Record(self, s).end_time # NoneNum
                    /\ \A s, t \in T :
                         s # t => PairwiseOverlap(Record(self, s), Record(self, t)) } })

\* C6: the maximum concurrency of the report is at least the size of the
\* largest set of pairwise overlapping completed downloads.
C6_MaxParallelAtLeastClique ==
  timeline.status = "ok" => timeline.max_parallel >= LargestClique(analyzer)

\* C7: when downloads are registered and none both started and ended, the
\* report is produced without an exception, has no total duration and lists
\* every download as incomplete.
C7_TruncatedTraceReported ==
  ( /\ timeline.status # "not_run"
    /\ Registered(analyzer) # {}
    /\ \A s \in Registered(analyzer) :
         Record(analyzer, s).start_time = 0 \/ Record(analyzer, s).end_time = NoneNum )
  => /\ timeline.status = "ok"
     /\ timeline.total_duration = NoneNum
     /\ timeline.incomplete = Registered(analyzer)

\* C8: with a completed download, the total duration is the latest end time
\* of a completed download minus the earliest start time of a download that
\* has one (a first data frame), in milliseconds.
C8_TotalDuration ==
  LET completed == { s \in Registered(analyzer) : Record(analyzer, s).end_time # NoneNum }
      started == { s \in Registered(analyzer) : Record(analyzer, s).start_time # 0 }
  IN (timeline.status = "ok" /\ completed # {}) =>
       timeline.total_duration =
         ((Max({ Record(analyzer, s).end_time : s \in completed })
            - Min({ Record(analyzer, s).start_time : s \in started })) * 1000)
         \div TicksPerSecond

\* the start and end events of an analyzer as a bag of (stream, kind, time)
EventKey(e) == << e.stream_id, e.event_type, e.timestamp >>

SameEvents(a, b) ==
  /\ Len(a.events) = Len(b.events)
  /\ \A i \in 1..Len(a.events) :
       Cardinality({ j \in 1..Len(a.events) : EventKey(a.events[j]) = EventKey(a.events[i]) })
         = Cardinality({ j \in 1..Len(b.events) : EventKey(b.events[j]) = EventKey(a.events[i]) })

\* C9: two traces that continue the trace read so far with the same two
\* data-frame lines of equal elapsed time and different streams, in the two
\* possible orders, and that yield the same start and end events, one line
\* giving a start and the other an end, report the same maximum concurrency.
C9_TieOrderIrrelevant ==
  (pc = "scan" /\ line_num + 2 <= MaxLines) =>
    \A l1, l2 \in DataLines(1..MaxTime) :
      LET a12 == parse_line(parse_line(analyzer, line_num + 1, l1), line_num + 2, l2)
          a21 == parse_line(parse_line(analyzer, line_num + 1, l2), line_num + 2, l1)
      IN ( /\ l1.ts = l2.ts
           /\ l1.stream # l2.stream
           /\ SameEvents(a12, a21)
           /\ Cardinality(EventsOf(a12, l1.stream, "end"))
                > Cardinality(EventsOf(analyzer, l1.stream, "end"))
           /\ Cardinality(EventsOf(a12, l2.stream, "start"))
                > Cardinality(EventsOf(analyzer, l2.stream, "start"))
           /\ get_timeline(a12).status = "ok" )
         => get_timeline(a21).max_parallel = get_timeline(a12).max_parallel

\* C10: the frame count of a record grows only while its end time is unset,
\* and a data-frame line leaves the frame count of a record whose end time is
\* set as it is.
C10_FramesCountedUntilEnd ==
  [][ /\ \A s \in Registered(analyzer) \cap Registered(analyzer') :
           Record(analyzer', s).data_frames > Record(analyzer, s).data_frames
             => Record(analyzer, s).end_time = NoneNum
      /\ \A line \in DataLines({ NoneNum } \cup (0..MaxTime)) :
           ( /\ ReadLine(line)
             /\ line.stream \in Registered(analyzer)
             /\ Record(analyzer, line.stream).end_time # NoneNum )
           => Record(analyzer', line.stream).data_frames
                = Record(analyzer, line.stream).data_frames
    ]_vars

\* a stream with one start and two end events and a single counted frame: the
\* second END_STREAM frame came after the end time was set and was not counted
C10_Witness ==
  \E s \in Registered(analyzer) :
    /\ Cardinality(EventsOf(analyzer, s, "start")) = 1
    /\ Cardinality(EventsOf(analyzer, s, "end")) = 2
    /\ Record(analyzer, s).data_frames = 1

\* C11: every data-frame line with an elapsed-time prefix, whatever the
\* elapsed time (0 included), that names a stream with a registered record
\* whose end time is unset adds exactly one to the record's frame count.
C11_EveryFrameCounted ==
  [][ \A line \in DataLines(0..MaxTime) :
        ( /\ ReadLine(line)
          /\ line.stream \in Registered(analyzer)
          /\ Record(analyzer, line.stream).end_time = NoneNum )
        => Record(analyzer', line.stream).data_frames
             = Record(analyzer, line.stream).data_frames + 1
    ]_vars

\* C12: in every reachable state the keys of the download map are stream ids
\* of the package-to-stream table and every event belongs to a stream with a
\* record; a size announcement of a package absent from the table, and a data
\* frame of a stream without a record, leave the analyzer as it is.
TableStreams == { package_streams[p] : p \in DOMAIN package_streams }

C12_RecordsOnlyFromTable ==
  /\ Registered(analyzer) \subseteq TableStreams
  /\ \A i \in 1..Len(analyzer.events) :
       analyzer.events[i].stream_id \in Registered(analyzer)
  /\ \A line \in AnnounceLines(Sizes) :
       Lower(line.pkg) \notin DOMAIN package_streams
         => parse_line(analyzer, line_num + 1, line) = analyzer
  /\ \A line \in DataLines({ NoneNum } \cup (0..MaxTime)) :
       line.stream \notin Registered(analyzer)
         => parse_line(analyzer, line_num + 1, line) = analyzer

\* both packages of the table that the traces announce have a record and
\* events, after lines that created nothing
C12_Witness ==
  /\ Registered(analyzer) = { 7, 11 }
  /\ Len(analyzer.events) >= 2
  /\ line_num > Len(analyzer.events) + 2

\* the elapsed times of the start and end events do not decrease in file order
EventsInOrder(self) ==
  \A i, j \in 1..Len(self.events) :
    i < j => self.events[i].timestamp <= self.events[j].timestamp

\* C13 as stated: the maximum concurrency of the report is at least 1 when a
\* 'start' event was emitted, for every trace.
C13_StartGivesOne ==
  (timeline.status = "ok" /\ StartEvents(analyzer) # << >>)
    => timeline.max_parallel >= 1

\* C13 amended: the sweep gives at least 1 when a 'start' event was emitted
\* and the elapsed times of the start and end events do not decrease in file
\* order.
C13_StartGivesOneInOrder ==
  (StartEvents(analyzer) # << >> /\ EventsInOrder(analyzer))
    => /\ max_parallel(analyzer) >= 1
       /\ timeline.status = "ok" => timeline.max_parallel >= 1

\* a report of an in-order trace in which a stream ended twice
C13_Witness ==
  /\ timeline.status = "ok"
  /\ EventsInOrder(analyzer)
  /\ \E s \in Registered(analyzer) : Cardinality(EventsOf(analyzer, s, "end")) = 2
  /\ timeline.max_parallel = 1

\* the unordered pairs of completed downloads that overlap, as sets of two
\* stream ids
OverlappingPairs(self) ==
  { { s, t } : s, t \in Registered(self) } \cap
  { P \in SUBSET Registered(self) :
      /\ Cardinality(P) = 2
      /\ \A s, t \in P :
           s # t => PairwiseOverlap(Record(self, s), Record(self, t)) }

PairDuration(d1, d2) ==
  ((Min({ d1.end_time, d2.end_time }) - Max({ d1.start_time, d2.start_time })) * 1000)
  \div TicksPerSecond

PackageOf(self, s) == Record(self, s).package

\* C14: the report lists exactly the unordered pairs of completed downloads
\* with start_1 < end_2 and start_2 < end_1, each once, with the duration
\* min(end_1, end_2) - max(start_1, start_2); the test and the duration are
\* the same for both orders of a pair; no pair has an incomplete download.
C14_OverlapsExact ==
  /\ \A s, t \in Registered(analyzer) :
       /\ Overlap(Record(analyzer, s), Record(analyzer, t))
            = Overlap(Record(analyzer, t), Record(analyzer, s))
       /\ Overlap(Record(analyzer, s), Record(analyzer, t))
            => overlap_duration(Record(analyzer, s), Record(analyzer, t))
                 = overlap_duration(Record(analyzer, t), Record(analyzer, s))
  /\ timeline.status = "ok" =>
       /\ Len(timeline.overlaps) = Cardinality(OverlappingPairs(analyzer))
       /\ \A P \in OverlappingPairs(analyzer) :
            \E i \in 1..Len(timeline.overlaps) : \E s, t \in P :
              /\ s # t
              /\ timeline.overlaps[i]
                   = << PackageOf(analyzer, s), PackageOf(analyzer, t),
                        PairDuration(Record(analyzer, s), Record(analyzer, t)) >>
       /\ \A i \in 1..Len(timeline.overlaps) :
            \E s, t \in Registered(analyzer) :
              /\ { s, t } \in OverlappingPairs(analyzer)
              /\ timeline.overlaps[i][1] = PackageOf(analyzer, s)
              /\ timeline.overlaps[i][2] = PackageOf(analyzer, t)
              /\ Record(analyzer, s).end_time # NoneNum
              /\ Record(analyzer, t).end_time # NoneNum

\* a report of two completed downloads that overlap
C14_Witness ==
  /\ timeline.status = "ok"
  /\ Len(timeline.overlaps) = 1
  /\ \A s \in Registered(analyzer) : Record(analyzer, s).end_time # NoneNum

CompletedRecords(self) ==
  { self.downloads[i] :
      i \in { j \in 1..Len(self.downloads) : self.downloads[j].end_time # NoneNum } }

\* C15 as stated: every completed download has duration_ms =
\* (end_time - start_time) * 1000 and, its size being known, a throughput,
\* equal to size_mb * 8 / (duration_ms / 1000).
C15_ThroughputAlwaysDefined ==
  \A d \in CompletedRecords(analyzer) :
    /\ duration_ms(d) = ((d.end_time - d.start_time) * 1000) \div TicksPerSecond
    /\ d.size_mb # NoneNum =>
         /\ speed_mbps(d) # << >>
         /\ speed_mbps(d)[1] * duration_ms(d) = d.size_mb * 8 * 1000 * speed_mbps(d)[2]

\* C15 amended: every completed download has duration_ms =
\* (end_time - start_time) * 1000; its throughput is defined exactly when
\* duration_ms and size_mb are both non-zero, and is then
\* size_mb * 8 / (duration_ms / 1000).
C15_ThroughputWhenNonZero ==
  \A d \in CompletedRecords(analyzer) : \A z \in Sizes \cup { 0 } :
    LET e == [d EXCEPT !.size_mb = z]
    IN /\ duration_ms(e) = ((e.end_time - e.start_time) * 1000) \div TicksPerSecond
       /\ speed_mbps(e) # << >> <=> (duration_ms(e) # 0 /\ z # 0)
       /\ speed_mbps(e) # << >> =>
            /\ speed_mbps(e)[2] # 0
            /\ speed_mbps(e)[1] * duration_ms(e) = z * 8 * 1000 * speed_mbps(e)[2]

\* a completed download with a throughput next to one whose first data frame
\* was its END_STREAM frame
C15_Witness ==
  /\ \E d \in CompletedRecords(analyzer) : speed_mbps(d) # << >>
  /\ \E d \in CompletedRecords(analyzer) : d.start_time = d.end_time

\* lines with a capture of [0-9.]+ that is not a number
MalformedLines ==
  AnnounceLines({ Bad }) \cup DataLines({ Bad })

\* C16: a line whose elapsed-time prefix or MiB size is not a valid number
\* raises nothing: the records and events stay as they are and the scan goes
\* on.
C16_MalformedNeverRaises ==
  [][ \A line \in MalformedLines :
        ReadLine(line) => (pc' = "scan" /\ analyzer' = analyzer)
    ]_vars

\* what a trace finally records of the download of stream s
Outcome(self, s) ==
  << Record(self, s).start_time, Record(self, s).end_time,
     Record(self, s).data_frames >>

\* lines that are not lines of stream s: data frames and size announcements of
\* other streams, and lines that match nothing
OtherLines(s) ==
  { l \in DataLines({ NoneNum } \cup (0..MaxTime)) : l.stream # s }
  \cup { l \in AnnounceLines(Sizes) : find_stream_for_package(l.pkg, 0) # s }
  \cup { NoiseLine }

\* C17: a data-frame line of stream s changes the record of no other stream,
\* adds and removes no record and appends events of s only; and the start
\* time, end time and frame count a data-frame line of s leaves are the same
\* whether a line of another stream or an unmatched line is read before it,
\* after it, or not at all.
C17_OnlyOwnStream ==
  /\ \A line \in DataLines({ NoneNum } \cup (0..MaxTime)) :
       LET after == parse_line(analyzer, line_num + 1, line)
       IN /\ Registered(after) = Registered(analyzer)
          /\ \A t \in Registered(analyzer) \ { line.stream } :
               Record(after, t) = Record(analyzer, t)
          /\ Len(after.events) >= Len(analyzer.events)
          /\ SubSeq(after.events, 1, Len(analyzer.events)) = analyzer.events
          /\ \A i \in (Len(analyzer.events) + 1)..Len(after.events) :
               after.events[i].stream_id = line.stream
  /\ (pc = "scan" /\ line_num + 2 <= MaxLines) =>
       \A s \in Registered(analyzer) :
         \A l1 \in { l \in DataLines(1..MaxTime) : l.stream = s } :
           \A l2 \in OtherLines(s) :
             LET alone == parse_line(analyzer, line_num + 1, l1)
                 first == parse_line(parse_line(analyzer, line_num + 1, l1),
                                     line_num + 2, l2)
                 second == parse_line(parse_line(analyzer, line_num + 1, l2),
                                      line_num + 2, l1)
             IN /\ Outcome(first, s) = Outcome(alone, s)
                /\ Outcome(second, s) = Outcome(alone, s)

\* two downloads whose data frames alternate in the trace
C17_Witness ==
  /\ Registered(analyzer) = { 7, 11 }
  /\ Len(analyzer.events) >= 3
  /\ analyzer.events[1].stream_id # analyzer.events[2].stream_id
  /\ analyzer.events[3].stream_id = analyzer.events[1].stream_id

(***************************************************************************)
(* The three-stream trace of the spec's scenario: every download is        *)
(* announced before its first data frame, its last data frame carries      *)
(* END_STREAM, and the data frames are read in the order of their elapsed  *)
(* times; where the scenario leaves the order of the lines open, every     *)
(* order is a trace.                                                       *)
(***************************************************************************)
ScenarioStreams == { 7, 11, 9 }

ScenarioPackage(s) ==
  CASE s = 7 -> "torch" [] s = 11 -> "numpy" [] s = 9 -> "scipy"

ScenarioSize(s) ==
  CASE s = 7 -> 50 [] s = 11 -> 12 [] s = 9 -> 8

\* elapsed times of the data frames of a stream, in ticks; the last ends it
ScenarioFrames(s) ==
  CASE s = 7 -> << 500, 2000, 3000 >>
    [] s = 11 -> << 1000, 1200, 1500 >>
    [] s = 9 -> << 1100, 1200, 1300 >>

\* data frames of stream s read so far
FramesRead(s) ==
  IF s \in Registered(analyzer) THEN Record(analyzer, s).data_frames ELSE 0

\* elapsed time of the last data frame read
LastFrameTime ==
  Max({ 0 } \cup { ScenarioFrames(s)[FramesRead(s)] :
                     s \in { t \in ScenarioStreams : FramesRead(t) > 0 } })

\* the next line of stream s in the trace
ScenarioLine(s) ==
  IF s \notin Registered(analyzer)
  THEN DlLine(NoneNum, ScenarioPackage(s), ScenarioSize(s), NoneNum, FALSE)
  ELSE DlLine(ScenarioFrames(s)[FramesRead(s) + 1], None, NoneNum, s,
              FramesRead(s) + 1 = Len(ScenarioFrames(s)))

\* analyze_file reading the next line of the scenario
ScenarioRead ==
  /\ pc = "scan"
  /\ \E s \in ScenarioStreams :
       /\ FramesRead(s) < Len(ScenarioFrames(s))
       /\ s \in Registered(analyzer) =>
            ScenarioFrames(s)[FramesRead(s) + 1] >= LastFrameTime
       /\ analyzer' = parse_line(analyzer, line_num + 1, ScenarioLine(s))
  /\ line_num' = line_num + 1
  /\ UNCHANGED << pc, timeline >>
  /\ UNCHANGED stage_vars

ScenarioNext == ScenarioRead \/ GetTimeline

\* the download analyzer on the three-stream trace
ScenarioSpec == Init /\ [][ScenarioNext]_vars

ScenarioComplete ==
  /\ Registered(analyzer) = ScenarioStreams
  /\ \A s \in ScenarioStreams : Record(analyzer, s).end_time # NoneNum

\* C18: for the three-stream trace the report gives a total duration of
\* 2500 ms, the three overlaps numpy-torch, scipy-torch and numpy-scipy, the
\* last of 200 ms, and a maximum concurrency of 3.
C18_ThreeStreamScenario ==
  (timeline.status # "not_run" /\ ScenarioComplete) =>
    /\ timeline.status = "ok"
    /\ timeline.total_duration = 2500
    /\ Len(timeline.overlaps) = 3
    /\ { { timeline.overlaps[i][1], timeline.overlaps[i][2] } :
           i \in 1..Len(timeline.overlaps) }
         = { { "numpy", "torch" }, { "scipy", "torch" }, { "numpy", "scipy" } }
    /\ \A i \in 1..Len(timeline.overlaps) :
         { timeline.overlaps[i][1], timeline.overlaps[i][2] } = { "numpy", "scipy" }
           => timeline.overlaps[i][3] = 200
    /\ timeline.max_parallel = 3

C18_Witness ==
  /\ timeline.status = "ok"
  /\ ScenarioComplete
  /\ line_num = 12

\* C19: a call of parse_line appends one history entry, the new stage with the
\* line that triggered it, exactly when it changes current_stage, and exactly
\* then it returns the new stage; otherwise the history is unchanged and the
\* call returns None. current_stage is the stage of the last history entry,
\* or initializing when the history is empty.
C19_OneTransitionPerMove ==
  /\ parser.current_stage =
       IF parser.stage_history = << >> THEN "initializing"
       ELSE HistoryStage(Len(parser.stage_history))
  /\ \A line \in StageLines :
       LET r == stage_parse_line(parser, line)
           moved == r.self.current_stage # parser.current_stage
       IN /\ moved <=> r.ret # None
          /\ moved <=> r.self.stage_history # parser.stage_history
          /\ moved =>
               /\ r.ret = r.self.current_stage
               /\ r.self.stage_history =
                    Append(parser.stage_history, << r.self.current_stage, line >>)

C19_Witness ==
  /\ Len(parser.stage_history) >= 2
  /\ new_stage = parser.current_stage
  /\ HistoryLine(Len(parser.stage_history)).count > 0

\* the history entries that enter a stage
Entries(stage) ==
  { i \in 1..Len(parser.stage_history) : HistoryStage(i) = stage }

\* the stage whose entry writes a counter
CounterStage ==
  [ packages_resolved |-> "resolution_summary",
    packages_prepared |-> "package_preparation",
    packages_installed |-> "final_summary" ]

\* C20: a package counter is 0 until its own stage is entered; the stage is
\* entered at most once, the counter is then the N of the line that entered
\* it, and no later call of parse_line changes it, whatever the line
\* announces; a call changes a counter only when it enters the counter's stage.
C20_CountersWrittenOnEntry ==
  \A c \in DOMAIN CounterStage :
    /\ Cardinality(Entries(CounterStage[c])) <= 1
    /\ Entries(CounterStage[c]) = {} => parser[c] = 0
    /\ \A i \in Entries(CounterStage[c]) : parser[c] = HistoryLine(i).count
    /\ \A line \in StageLines :
         LET r == stage_parse_line(parser, line)
         IN /\ Entries(CounterStage[c]) # {} => r.self[c] = parser[c]
            /\ r.self[c] # parser[c] => r.ret = CounterStage[c]

C20_Witness ==
  /\ parser.current_stage = "final_summary"
  /\ parser.packages_resolved = 1
  /\ parser.packages_prepared = 2
  /\ parser.packages_installed = 2

\* the counter of the concurrency sweep after the first i events of evs
RunningCount(evs, i) ==
  Cardinality({ j \in 1..i : evs[j].event_type = "start" })
    - Cardinality({ j \in 1..i : evs[j].event_type = "end" })

\* C21: every stream id has at most one 'end' event in the event list, an end
\* time that is set is not changed by a later data frame, and when the elapsed
\* times of the events do not decrease in file order the counter of the
\* concurrency sweep never drops below zero.
C21_OneEndPerStream ==
  /\ \A s \in Registered(analyzer) :
       Cardinality(EventsOf(analyzer, s, "end")) <= 1
  /\ \A line \in DataLines(0..MaxTime) :
       \A s \in Registered(analyzer) :
         Record(analyzer, s).end_time # NoneNum =>
           Record(parse_line(analyzer, line_num + 1, line), s).end_time
             = Record(analyzer, s).end_time
  /\ EventsInOrder(analyzer) =>
       \A i \in 0..Len(analyzer.events) :
         RunningCount(events_sorted(analyzer), i) >= 0

====
